---- MODULE Spec2Model ----
(***************************************************************************)
(* Model of the tools of gemini-reviewer (src/unnamed/part_000, the same   *)
(* code as src/tools.ts plus generateMarkdownFile): the diff heuristics    *)
(* determineCommitType, generateChangeSummary, generateCommitDetails and   *)
(* generateBasicReview, and the two asynchronous tools                     *)
(* generateCommitMessage and generateMarkdownFile with the git and fs      *)
(* calls they await.                                                       *)
(*                                                                         *)
(* Text.  A JavaScript string is a sequence of one-character strings; the  *)
(* line feed is the element "\n".  The fixed text of a template literal    *)
(* that holds no line feed is written as one element ("## File Changes"),  *)
(* so a document is a sequence of characters and such fixed pieces.  The   *)
(* code inspects only paths and diff texts (split, startsWith, includes,   *)
(* toLowerCase, length), and those are modelled character by character.    *)
(***************************************************************************)
EXTENDS Integers, Sequences, FiniteSets, TLC

VARIABLES
    tree,                 \* the working tree as git reports it: <<[file, diff], ...>>
    treeChanged,          \* whether the working tree changed during the call
    pc,                   \* the position of the running tool
    args,                 \* the arguments of the call
    retTo,                \* the caller the running fetch loop returns to
    files,                \* what is left of summary.files in the running fetch loop
    acc,                  \* the local diffs array of the running fetch loop
    diffs,                \* diffs of generateMarkdownFile
    cmDiffs,              \* diffs of generateCommitMessage
    commit,               \* what generateCommitMessage returned
    commitMessageSection, \* generateMarkdownFile's locals
    changesSection,
    reviewSection,
    markdown,
    exc,                  \* the exception in flight
    disk,                 \* the content of the file at outputPath
    writes,               \* calls of fs.writeFile so far
    outcome,              \* the value generateMarkdownFile returned
    returns,              \* how many values the tool returned
    input,                \* the argument of a pure function
    result                \* the value a pure function returned

vars == <<tree, treeChanged, pc, args, retTo, files, acc, diffs, cmDiffs, commit,
          commitMessageSection, changesSection, reviewSection, markdown,
          exc, disk, writes, outcome, returns, input, result>>

-----------------------------------------------------------------------------
(* Strings *)

NL == "\n"

\* String.prototype.split(sep) for a one-character separator: the pieces
\* between the separators, so "" gives <<"">> and n separators n + 1 pieces.
Split(s, sep) ==
    LET seps   == {i \in 1..Len(s) : s[i] = sep}
        n      == Cardinality(seps)
        cut(k) == IF k = 0 THEN 0
                  ELSE IF k = n + 1 THEN Len(s) + 1
                  ELSE CHOOSE p \in seps : Cardinality({j \in seps : j <= p}) = k
    IN  [k \in 1..(n + 1) |-> SubSeq(s, cut(k - 1) + 1, cut(k) - 1)]

\* Array.prototype.pop() of a split: its last piece.
Pop(parts) == parts[Len(parts)]

RECURSIVE Join(_, _)
\* Array.prototype.join(sep); sep is a string (a sequence).
Join(parts, sep) ==
    IF Len(parts) = 0 THEN <<>>
    ELSE IF Len(parts) = 1 THEN parts[1]
    ELSE parts[1] \o sep \o Join(Tail(parts), sep)

\* String.prototype.startsWith(c) for a one-character c.
StartsWith(line, c) == Len(line) > 0 /\ line[1] = c

\* String.prototype.includes(k).
Includes(s, k) ==
    \E i \in 0..(Len(s) - Len(k)) : SubSeq(s, i + 1, i + Len(k)) = k

LowerChar(c) ==
    CASE c = "A" -> "a" [] c = "B" -> "b" [] c = "C" -> "c" [] c = "D" -> "d"
      [] c = "E" -> "e" [] c = "F" -> "f" [] c = "G" -> "g" [] c = "H" -> "h"
      [] c = "I" -> "i" [] c = "J" -> "j" [] c = "K" -> "k" [] c = "L" -> "l"
      [] c = "M" -> "m" [] c = "N" -> "n" [] c = "O" -> "o" [] c = "P" -> "p"
      [] c = "Q" -> "q" [] c = "R" -> "r" [] c = "S" -> "s" [] c = "T" -> "t"
      [] c = "U" -> "u" [] c = "V" -> "v" [] c = "W" -> "w" [] c = "X" -> "x"
      [] c = "Y" -> "y" [] c = "Z" -> "z" [] OTHER -> c

\* String.prototype.toLowerCase().
ToLowerCase(s) == [i \in 1..Len(s) |-> LowerChar(s[i])]

\* `${n}` for a number n.
Num(n) == <<ToString(n)>>

-----------------------------------------------------------------------------
(* commitMessageConfig *)

excludeFiles == { <<"d","i","s","t">>, <<"b","u","n",".","l","o","c","k">> }

maxChangesForSummary == 5

defaultType == "chore"

\* The keys of typeCounts and of typeMapping, in insertion order
\* (the order Object.entries walks them in).
TypeOrder == <<"feat", "fix", "docs", "style", "refactor", "test", "chore">>

Types == {TypeOrder[i] : i \in 1..Len(TypeOrder)}

typeMapping(type) ==
    CASE type = "feat" ->
           << <<"a","d","d">>, <<"i","m","p","l","e","m","e","n","t">>,
              <<"c","r","e","a","t","e">>, <<"f","e","a","t","u","r","e">> >>
      [] type = "fix" ->
           << <<"f","i","x">>, <<"r","e","s","o","l","v","e">>,
              <<"b","u","g">>, <<"i","s","s","u","e">> >>
      [] type = "docs" ->
           << <<"d","o","c","u","m","e","n","t">>, <<"c","o","m","m","e","n","t">>,
              <<"r","e","a","d","m","e">> >>
      [] type = "style" ->
           << <<"f","o","r","m","a","t">>, <<"s","t","y","l","e">>,
              <<"c","s","s">> >>
      [] type = "refactor" ->
           << <<"r","e","f","a","c","t","o","r">>,
              <<"r","e","s","t","r","u","c","t","u","r","e">>,
              <<"r","e","o","r","g","a","n","i","z","e">> >>
      [] type = "test" ->
           << <<"t","e","s","t">>, <<"s","p","e","c">>,
              <<"c","o","v","e","r","a","g","e">> >>
      [] type = "chore" ->
           << <<"c","o","n","f","i","g">>, <<"s","e","t","u","p">>,
              <<"d","e","p","e","n","d","e","n","c","y">> >>

-----------------------------------------------------------------------------
(* determineCommitType *)

\* The increments one diff gives typeCounts[type]: one per keyword of the
\* type that the lower-cased diff includes.
KeywordHits(diff, type) ==
    LET lowerDiff == ToLowerCase(diff)
        keywords  == typeMapping(type)
    IN  Cardinality({k \in 1..Len(keywords) : Includes(lowerDiff, keywords[k])})

RECURSIVE CountOver(_, _)
CountOver(ds, type) ==
    IF Len(ds) = 0 THEN 0
    ELSE KeywordHits(ds[1].diff, type) + CountOver(Tail(ds), type)

\* typeCounts after the loop over the diffs.
typeCounts(ds) == [type \in Types |-> CountOver(ds, type)]

RECURSIVE FindMax(_, _, _, _)
\* The loop "for (const [type, count] of Object.entries(typeCounts))".
FindMax(counts, i, maxCount, maxType) ==
    IF i > Len(TypeOrder) THEN maxType
    ELSE IF counts[TypeOrder[i]] > maxCount
         THEN FindMax(counts, i + 1, counts[TypeOrder[i]], TypeOrder[i])
         ELSE FindMax(counts, i + 1, maxCount, maxType)

\* The classifier with typeCounts reset for every diff, so that only the
\* last diff decides.
determineCommitTypeLastDiff(ds) ==
    IF Len(ds) = 0 THEN defaultType
    ELSE FindMax(typeCounts(<<ds[Len(ds)]>>), 1, 0, defaultType)

determineCommitType(ds) == FindMax(typeCounts(ds), 1, 0, defaultType)

-----------------------------------------------------------------------------
(* generateChangeSummary *)

\* d.file.split('/').pop()
BaseName(file) == Pop(Split(file, "/"))

\* d.file.split('.').pop()
FileType(file) == Pop(Split(file, "."))

\* new Set(diffs.map(d => d.file.split('.').pop()))
fileTypesOf(ds) == {FileType(ds[i].file) : i \in 1..Len(ds)}

generateChangeSummary(ds) ==
    IF Len(ds) = 0 THEN <<"No changes detected">>
    ELSE IF Len(ds) = 1 THEN <<"Update ">> \o ds[1].file
    ELSE IF Len(ds) <= maxChangesForSummary
    THEN <<"Update ">>
           \o Join([i \in 1..Len(ds) |-> BaseName(ds[i].file)], <<",", " ">>)
    ELSE LET fileTypes == fileTypesOf(ds)
             fileCount == Len(ds)
         IN  IF Cardinality(fileTypes) = 1
             THEN <<"Update ">> \o Num(fileCount) \o <<" ">>
                    \o FileType(ds[1].file) \o <<" files">>
             ELSE <<"Update ">> \o Num(fileCount) \o <<" files across ">>
                    \o Num(Cardinality(fileTypes)) \o <<" file types">>

-----------------------------------------------------------------------------
(* generateCommitDetails, generateBasicReview *)

\* diff.split('\n').filter(line => line.startsWith(c)).length
LinesStarting(diff, c) ==
    LET lines == Split(diff, NL)
    IN  Cardinality({i \in 1..Len(lines) : StartsWith(lines[i], c)})

addedLines(diff) == LinesStarting(diff, "+") - 1

removedLines(diff) == LinesStarting(diff, "-") - 1

generateCommitDetails(ds) ==
    IF Len(ds) = 0 THEN <<"No changes detected">>
    ELSE Join([i \in 1..Len(ds) |->
                 ds[i].file \o <<":", " ", "+">> \o Num(addedLines(ds[i].diff))
                   \o <<" ", "-">> \o Num(removedLines(ds[i].diff))],
              <<NL>>)

\* `${n > 0 ? '+' + n : n}`
Signed(n) == IF n > 0 THEN <<"+">> \o Num(n) ELSE Num(n)

complexityOf(diff) ==
    IF Len(diff) > 1000 THEN "high"
    ELSE IF Len(diff) > 300 THEN "medium"
    ELSE "low"

RECURSIVE SumSeq(_)
\* The running totals of the forEach loop, over the per-diff counts.
SumSeq(ns) == IF Len(ns) = 0 THEN 0 ELSE ns[1] + SumSeq(Tail(ns))

\* One entry of fileAnalysis.
fileAnalysisOf(d) ==
    <<"### ">> \o d.file \o <<NL>>
      \o <<"- Lines added: ">> \o Num(addedLines(d.diff)) \o <<NL>>
      \o <<"- Lines removed: ">> \o Num(removedLines(d.diff)) \o <<NL>>
      \o <<"- Net change: ">>
      \o Signed(addedLines(d.diff) - removedLines(d.diff)) \o <<NL>>
      \o <<"- Complexity: ", complexityOf(d.diff), NL>>

generateBasicReview(ds) ==
    IF Len(ds) = 0 THEN <<"No changes to review.">>
    ELSE
      LET fileCount      == Len(ds)
          fileTypes      == fileTypesOf(ds)
          totalAdditions == SumSeq([i \in 1..Len(ds) |-> addedLines(ds[i].diff)])
          totalDeletions == SumSeq([i \in 1..Len(ds) |-> removedLines(ds[i].diff)])
          fileAnalysis   ==
              Join([i \in 1..Len(ds) |-> fileAnalysisOf(ds[i])], <<NL>>)
      IN  <<"## Summary", NL, NL>>
            \o <<"This review covers ">> \o Num(fileCount) \o <<" file">>
            \o (IF fileCount # 1 THEN <<"s">> ELSE <<>>)
            \o <<" across ">> \o Num(Cardinality(fileTypes)) \o <<" file type">>
            \o (IF Cardinality(fileTypes) # 1 THEN <<"s">> ELSE <<>>)
            \o <<".", NL>>
            \o <<"- Total additions: ">> \o Num(totalAdditions) \o <<NL>>
            \o <<"- Total deletions: ">> \o Num(totalDeletions) \o <<NL>>
            \o <<"- Net change: ">> \o Signed(totalAdditions - totalDeletions)
            \o <<NL, NL>>
            \o <<"## File Analysis", NL, NL>>
            \o fileAnalysis

-----------------------------------------------------------------------------
(* The result of generateCommitMessage, once its diffs are fetched *)

\* An optional argument: None when it is left out, Some(v) when v is passed.
None == <<>>

Some(v) == <<v>>

Given(opt) == Len(opt) = 1

\* JavaScript truthiness of an optional string: passed and not "".
TruthyText(opt) == Given(opt) /\ Len(opt[1]) > 0

\* The type always taken from the classifier, the caller's ignored.
commitTypeOfIgnoringType(ds, type) == determineCommitType(ds)

\* let commitType = type || defaultType; if (!type) commitType = determineCommitType(diffs)
commitTypeOf(ds, type) ==
    IF Given(type) THEN type[1] ELSE determineCommitType(ds)

\* scope ? `(${scope}): ` : ": "
scopeTextOf(scope) ==
    IF TruthyText(scope) THEN <<"(">> \o scope[1] \o <<")", ":", " ">>
    ELSE <<":", " ">>

commitMessageOf(ds, type, scope) ==
    [commitMessage |-> <<commitTypeOf(ds, type)>> \o scopeTextOf(scope)
                          \o generateChangeSummary(ds),
     details       |-> generateCommitDetails(ds)]

-----------------------------------------------------------------------------
(* The working trees, arguments and failures the model draws from *)

MaxTreeFiles == 2

\* Diff texts as git prints them, cut down to the header and content lines.
DiffFix == Join(<< <<"-","-","-"," ","a">>, <<"+","+","+"," ","b">>,
                   <<"-","x">>, <<"+","f","i","x">> >>, <<NL>>)

DiffAdd == Join(<< <<"-","-","-"," ","a">>, <<"+","+","+"," ","b">>,
                   <<"+","A","d","d">>, <<"+","y">> >>, <<NL>>)

DiffLock == Join(<< <<"-","-","-"," ","a">>, <<"+","+","+"," ","b">>,
                    <<"+","v">> >>, <<NL>>)

PathA == <<"a",".","t","s">>

PathB == <<"s","r","c","/","b",".","m","d">>

PathLock == <<"b","u","n",".","l","o","c","k">>

\* The changed files there can be, in the order git lists them.
Pool == << [file |-> PathLock, diff |-> DiffLock],
           [file |-> PathA,    diff |-> DiffFix],
           [file |-> PathB,    diff |-> DiffAdd] >>

RECURSIVE Pick(_, _, _)
\* The entries of seq whose index is in keep, in order.
Pick(seq, keep, i) ==
    IF i > Len(seq) THEN <<>>
    ELSE (IF i \in keep THEN <<seq[i]>> ELSE <<>>) \o Pick(seq, keep, i + 1)

Trees == {Pick(Pool, keep, 1) :
            keep \in {k \in SUBSET (1..Len(Pool)) : Cardinality(k) <= MaxTreeFiles}}

DefaultTitle == <<"Code Review Results">>

Titles == {DefaultTitle, <<"S","p","r","i","n","t">>}

ReviewComments == {<<>>, <<"L","G","T","M">>}

ScopeAuth == <<"a","u","t","h">>

\* new Date().toISOString()
Timestamp == "2026-01-01T00:00:00.000Z"

NoOutcome == [status |-> "none"]

NoCommit == [commitMessage |-> <<>>, details |-> <<>>]

NoFile == <<"<no file>">>

NoArgs == [tool |-> "none"]

\* git.diff(["--", file]): the diff text of file in the tree as it is now,
\* "" when the file has no change (any more).
GitDiff(t, file) ==
    IF \E i \in 1..Len(t) : t[i].file = file
    THEN t[CHOOSE i \in 1..Len(t) : t[i].file = file].diff
    ELSE <<>>

\* Whether the running tool awaits inside generateMarkdownFile's try block.
InTry == args.tool = "generateMarkdownFile"

\* An await outside every try block: the rejection leaves the tool.
RaiseUncaught(reason) ==
    /\ exc' = reason
    /\ pc' = "rejected"

\* A rejected await: generateMarkdownFile's try block catches it; the
\* generateCommitMessage tool has no handler and rejects.
Raise(reason) ==
    /\ exc' = reason
    /\ pc' = IF InTry THEN "catch" ELSE "rejected"

-----------------------------------------------------------------------------
(* The working tree changes while the tool awaits *)

EnvChange ==
    /\ pc \notin {"done", "rejected", "pure", "applied"}
    /\ ~treeChanged
    /\ \E t \in Trees \ {tree} : tree' = t
    /\ treeChanged' = TRUE
    /\ UNCHANGED <<pc, args, retTo, files, acc, diffs, cmDiffs, commit,
                   commitMessageSection, changesSection, reviewSection,
                   markdown, exc, disk, writes, outcome, returns, input, result>>

-----------------------------------------------------------------------------
(* The fetch loop of getFileChangesInDirectory and of generateCommitMessage *)

\* const summary = await git.diffSummary(); const diffs = []
DiffSummary ==
    /\ pc = "summary"
    /\ files' = [i \in 1..Len(tree) |-> tree[i].file]
    /\ acc' = <<>>
    /\ pc' = "loop"
    /\ UNCHANGED <<tree, treeChanged, args, retTo, diffs, cmDiffs, commit,
                   commitMessageSection, changesSection, reviewSection,
                   markdown, exc, disk, writes, outcome, returns, input, result>>

DiffSummaryFails ==
    /\ pc = "summary"
    /\ Raise("git diffSummary failed")
    /\ UNCHANGED <<tree, treeChanged, args, retTo, files, acc, diffs, cmDiffs,
                   commit, commitMessageSection, changesSection, reviewSection,
                   markdown, disk, writes, outcome, returns, input, result>>

\* if (excludeFiles.includes(file.file)) continue
LoopSkip ==
    /\ pc = "loop"
    /\ Len(files) > 0
    /\ Head(files) \in excludeFiles
    /\ files' = Tail(files)
    /\ UNCHANGED <<tree, treeChanged, pc, args, retTo, acc, diffs, cmDiffs,
                   commit, commitMessageSection, changesSection, reviewSection,
                   markdown, exc, disk, writes, outcome, returns, input, result>>

\* const diff = await git.diff(["--", file.file]); diffs.push({file, diff})
LoopDiff ==
    /\ pc = "loop"
    /\ Len(files) > 0
    /\ Head(files) \notin excludeFiles
    /\ acc' = Append(acc, [file |-> Head(files),
                           diff |-> GitDiff(tree, Head(files))])
    /\ files' = Tail(files)
    /\ UNCHANGED <<tree, treeChanged, pc, args, retTo, diffs, cmDiffs, commit,
                   commitMessageSection, changesSection, reviewSection,
                   markdown, exc, disk, writes, outcome, returns, input, result>>

LoopDiffFails ==
    /\ pc = "loop"
    /\ Len(files) > 0
    /\ Head(files) \notin excludeFiles
    /\ Raise("git diff failed")
    /\ UNCHANGED <<tree, treeChanged, args, retTo, files, acc, diffs, cmDiffs,
                   commit, commitMessageSection, changesSection, reviewSection,
                   markdown, disk, writes, outcome, returns, input, result>>

-----------------------------------------------------------------------------
(* generateCommitMessage, called as a tool *)

\* The loop is over: the message is composed from the diffs just fetched
\* and returned.
CmReturn ==
    /\ pc = "loop"
    /\ Len(files) = 0
    /\ retTo = "cm"
    /\ cmDiffs' = acc
    /\ commit' = commitMessageOf(acc, args.type, args.scope)
    /\ returns' = returns + 1
    /\ pc' = "done"
    /\ UNCHANGED <<tree, treeChanged, args, retTo, files, acc, diffs,
                   commitMessageSection, changesSection, reviewSection,
                   markdown, exc, disk, writes, outcome, input, result>>

-----------------------------------------------------------------------------
(* generateMarkdownFile *)

OutputPath == <<"review.md">>

\* The code fence of Markdown, three backquotes, and the fence tagged diff.
Fence == "<3 backquotes>"

FenceDiff == "<3 backquotes>diff"

commitMessageSectionOf(c) ==
    <<NL, "## Commit Message", NL, NL, Fence, NL>>
      \o c.commitMessage
      \o <<NL, Fence, NL, NL, "### ", "D","e","t","a","i","l","s", NL, NL, Fence, NL>>
      \o c.details
      \o <<NL, Fence, NL>>

\* The file-changes section headed by the base names of the files.
changesSectionOfBaseNames(ds) ==
    <<NL, "## File Changes", NL, NL>>
      \o Join([i \in 1..Len(ds) |->
                 <<"### ">> \o BaseName(ds[i].file) \o <<NL, NL, FenceDiff, NL>>
                   \o ds[i].diff \o <<NL, Fence, NL>>],
              <<NL>>)
      \o <<NL>>

changesSectionOf(ds) ==
    <<NL, "## File Changes", NL, NL>>
      \o Join([i \in 1..Len(ds) |->
                 <<"### ">> \o ds[i].file \o <<NL, NL, FenceDiff, NL>>
                   \o ds[i].diff \o <<NL, Fence, NL>>],
              <<NL>>)
      \o <<NL>>

\* const reviewContent = reviewComments || generateBasicReview(diffs)
reviewSectionOf(ds, reviewComments) ==
    LET reviewContent == IF Len(reviewComments) > 0 THEN reviewComments
                         ELSE generateBasicReview(ds)
    IN  <<NL, "## Code Review", NL, NL>> \o reviewContent \o <<NL>>

\* The document with the file changes ahead of the commit message.
markdownOfChangesFirst(title, timestamp, review, commitMessage, changes) ==
    <<"# ">> \o title \o <<NL, NL, "*Generated on: ", timestamp, "*", NL, NL>>
      \o review \o changes \o commitMessage

markdownOf(title, timestamp, review, commitMessage, changes) ==
    <<"# ">> \o title \o <<NL, NL, "*Generated on: ", timestamp, "*", NL, NL>>
      \o review \o commitMessage \o changes

\* await fs.mkdir(outputDir, {recursive: true}), then getFileChangesInDirectory
Mkdir ==
    /\ pc = "mkdir"
    /\ pc' = "summary"
    /\ retTo' = "md"
    /\ UNCHANGED <<tree, treeChanged, args, files, acc, diffs, cmDiffs, commit,
                   commitMessageSection, changesSection, reviewSection,
                   markdown, exc, disk, writes, outcome, returns, input, result>>

\* The inner catch (dirError) returns the error outcome itself.
MkdirFails ==
    /\ pc = "mkdir"
    /\ outcome' = [status    |-> "error",
                   message   |-> <<"Failed to create directory for ">>
                                   \o OutputPath
                                   \o <<". Please check if the path is valid and you have write permissions.">>,
                   timestamp |-> Timestamp]
    /\ returns' = returns + 1
    /\ pc' = "done"
    /\ UNCHANGED <<tree, treeChanged, args, retTo, files, acc, diffs, cmDiffs,
                   commit, commitMessageSection, changesSection, reviewSection,
                   markdown, exc, disk, writes, input, result>>

\* The synchronous code from the commit-message section to the call of
\* fs.writeFile: the sections, the timestamp and the markdown.
Assemble(section) ==
    /\ commitMessageSection' = section
    /\ changesSection' =
         IF args.includeChanges THEN changesSectionOf(diffs') ELSE <<>>
    /\ reviewSection' =
         IF args.includeReview
         THEN reviewSectionOf(diffs', args.reviewComments) ELSE <<>>
    /\ markdown' = markdownOf(args.title, Timestamp, reviewSection',
                              commitMessageSection', changesSection')
    /\ pc' = "write"

\* The check for no changes left out: the report is assembled all the same.
MdNoChangesUnchecked ==
    /\ pc = "loop"
    /\ Len(files) = 0
    /\ retTo = "md"
    /\ Len(acc) = 0
    /\ diffs' = acc
    /\ Assemble(<<>>)
    /\ UNCHANGED <<tree, treeChanged, args, retTo, files, acc, cmDiffs, commit,
                   exc, disk, writes, outcome, returns, input, result>>

\* if (diffs.length === 0) return {status: "warning", ...}
MdNoChanges ==
    /\ pc = "loop"
    /\ Len(files) = 0
    /\ retTo = "md"
    /\ Len(acc) = 0
    /\ diffs' = acc
    /\ outcome' = [status    |-> "warning",
                   message   |-> <<"No changes detected in ", "rootDir",
                                   ". Make sure you have uncommitted changes and the directory exists.">>,
                   timestamp |-> Timestamp]
    /\ returns' = returns + 1
    /\ pc' = "done"
    /\ UNCHANGED <<tree, treeChanged, args, retTo, files, acc, cmDiffs, commit,
                   commitMessageSection, changesSection, reviewSection,
                   markdown, exc, disk, writes, input, result>>

\* if (includeCommitMessage) await generateCommitMessage({rootDir}): the
\* callee lists and fetches the changes again.
MdCallCommit ==
    /\ pc = "loop"
    /\ Len(files) = 0
    /\ retTo = "md"
    /\ Len(acc) > 0
    /\ args.includeCommitMessage
    /\ diffs' = acc
    /\ retTo' = "cmInMd"
    /\ pc' = "summary"
    /\ UNCHANGED <<tree, treeChanged, args, files, acc, cmDiffs, commit,
                   commitMessageSection, changesSection, reviewSection,
                   markdown, exc, disk, writes, outcome, returns, input, result>>

\* generateCommitMessage returned to generateMarkdownFile.
MdAssembleWithCommit ==
    /\ pc = "loop"
    /\ Len(files) = 0
    /\ retTo = "cmInMd"
    /\ cmDiffs' = acc
    /\ commit' = commitMessageOf(acc, None, None)
    /\ diffs' = diffs
    /\ Assemble(commitMessageSectionOf(commit'))
    /\ UNCHANGED <<tree, treeChanged, args, retTo, files, acc, exc, disk,
                   writes, outcome, returns, input, result>>

MdAssembleNoCommit ==
    /\ pc = "loop"
    /\ Len(files) = 0
    /\ retTo = "md"
    /\ Len(acc) > 0
    /\ ~args.includeCommitMessage
    /\ diffs' = acc
    /\ Assemble(<<>>)
    /\ UNCHANGED <<tree, treeChanged, args, retTo, files, acc, cmDiffs, commit,
                   exc, disk, writes, outcome, returns, input, result>>

\* await fs.writeFile(resolvedOutputPath, markdown, 'utf-8') resolves.
WriteFile ==
    /\ pc = "write"
    /\ disk' = markdown
    /\ writes' = writes + 1
    /\ pc' = "written"
    /\ UNCHANGED <<tree, treeChanged, args, retTo, files, acc, diffs, cmDiffs,
                   commit, commitMessageSection, changesSection, reviewSection,
                   markdown, exc, outcome, returns, input, result>>

\* What a rejected fs.writeFile can leave at the path: writeFile opens the
\* path with flag 'w' and then writes, so a failure leaves the path
\* untouched (open failed), empty (opened, nothing written) or holding a
\* prefix of the data (a write failed part-way).
FailedWriteLeaves(before, data) ==
    {before, <<>>, SubSeq(data, 1, Len(data) \div 2)}

WriteFileFails ==
    /\ pc = "write"
    /\ disk' \in FailedWriteLeaves(disk, markdown)
    /\ writes' = writes + 1
    /\ Raise("write failed")
    /\ UNCHANGED <<tree, treeChanged, args, retTo, files, acc, diffs, cmDiffs,
                   commit, commitMessageSection, changesSection, reviewSection,
                   markdown, outcome, returns, input, result>>

ReturnSuccess ==
    /\ pc = "written"
    /\ outcome' = [status    |-> "success",
                   filePath  |-> OutputPath,
                   message   |-> <<"Markdown file successfully generated at ">>
                                   \o OutputPath,
                   timestamp |-> Timestamp]
    /\ returns' = returns + 1
    /\ pc' = "done"
    /\ UNCHANGED <<tree, treeChanged, args, retTo, files, acc, diffs, cmDiffs,
                   commit, commitMessageSection, changesSection, reviewSection,
                   markdown, exc, disk, writes, input, result>>

\* catch (error) { return {status: "error", message: `Failed ...: ${...}`} }
Catch ==
    /\ pc = "catch"
    /\ outcome' = [status    |-> "error",
                   message   |-> <<"Failed to generate markdown file: ", exc>>,
                   timestamp |-> Timestamp]
    /\ returns' = returns + 1
    /\ pc' = "done"
    /\ UNCHANGED <<tree, treeChanged, args, retTo, files, acc, diffs, cmDiffs,
                   commit, commitMessageSection, changesSection, reviewSection,
                   markdown, exc, disk, writes, input, result>>

-----------------------------------------------------------------------------
(* generateMarkdownFile is called *)

Quiet ==
    /\ treeChanged = FALSE
    /\ files = <<>>
    /\ acc = <<>>
    /\ diffs = <<>>
    /\ cmDiffs = <<>>
    /\ commit = NoCommit
    /\ commitMessageSection = <<>>
    /\ changesSection = <<>>
    /\ reviewSection = <<>>
    /\ markdown = <<>>
    /\ exc = "none"
    /\ disk = NoFile
    /\ writes = 0
    /\ outcome = NoOutcome
    /\ returns = 0
    /\ result = <<>>

Idle == Quiet /\ input = <<>>

Init ==
    /\ Idle
    /\ tree \in Trees
    /\ args \in [tool : {"generateMarkdownFile"},
                 title : Titles,
                 includeChanges : BOOLEAN,
                 includeCommitMessage : BOOLEAN,
                 includeReview : BOOLEAN,
                 reviewComments : ReviewComments]
    /\ retTo = "md"
    /\ pc = "mkdir"

Next ==
    \/ EnvChange
    \/ Mkdir
    \/ MkdirFails
    \/ DiffSummary
    \/ DiffSummaryFails
    \/ LoopSkip
    \/ LoopDiff
    \/ LoopDiffFails
    \/ MdNoChanges
    \/ MdCallCommit
    \/ MdAssembleWithCommit
    \/ MdAssembleNoCommit
    \/ WriteFile
    \/ WriteFileFails
    \/ ReturnSuccess
    \/ Catch

Spec == Init /\ [][Next]_vars

-----------------------------------------------------------------------------
(* generateCommitMessage is called as a tool *)

InitCommit ==
    /\ Idle
    /\ tree \in Trees
    /\ args \in [tool : {"generateCommitMessage"},
                 type : {None} \cup {Some(t) : t \in Types},
                 scope : {None, Some(<<>>), Some(ScopeAuth)}]
    /\ retTo = "cm"
    /\ pc = "summary"

NextCommit ==
    \/ EnvChange
    \/ DiffSummary
    \/ DiffSummaryFails
    \/ LoopSkip
    \/ LoopDiff
    \/ LoopDiffFails
    \/ CmReturn

SpecCommit == InitCommit /\ [][NextCommit]_vars

-----------------------------------------------------------------------------
(* The pure functions, applied to inputs drawn from bounded sets *)

MaxLines == 3

MaxDiffs == 3

MaxFiles == 7

\* The lines a diff text is made of: the two file headers, an added, a
\* removed, a context and an empty line.
StatLines == { <<"+","+","+"," ","b">>, <<"-","-","-"," ","a">>,
               <<"+","x">>, <<"-","y">>, <<" ","z">>, <<>> }

StatTexts ==
    {Join(ls, <<NL>>) : ls \in UNION {[1..n -> StatLines] : n \in 0..MaxLines}}

Header == <<"-","-","-"," ","a", NL, "+","+","+"," ","b", NL>>

\* Diff texts with the keywords of several types, in either case, inside
\* other words, and with none.
ClassifyTexts ==
    { Header \o <<"+","A","d","d">>,
      Header \o <<"+","p","r","e","f","i","x"," ","B","U","G">>,
      Header \o <<"-","t","e","s","t">>,
      Header \o <<"+","c","o","n","f","i","g">>,
      Header \o <<"+","x">> }

\* Up to MaxDiffs changed files, each with one of the texts.
ClassifyInputs ==
    UNION {{[i \in 1..n |-> [file |-> <<"f", ToString(i), ".", "t", "s">>,
                             diff |-> texts[i]]] :
              texts \in [1..n -> ClassifyTexts]} : n \in 0..MaxDiffs}

SummaryPool ==
    << <<"a",".","t","s">>, <<"b",".","t","s">>, <<"c",".","t","s">>,
       <<"d",".","t","s">>, <<"e",".","t","s">>,
       <<"s","r","c","/","f",".","t","s">>, <<"l","i","b","/","g",".","t","s">>,
       <<"R",".","m","d">>, <<"p",".","j","s","o","n">>,
       <<"M","a","k","e","f","i","l","e">>, <<"b","i","n","/","r","u","n">> >>

Reverse(seq) == [i \in 1..Len(seq) |-> seq[Len(seq) + 1 - i]]

\* Lists of changed files with distinct paths, in the pool's order or reversed.
SummaryInputs ==
    LET pool  == [i \in 1..Len(SummaryPool) |->
                    [file |-> SummaryPool[i], diff |-> DiffLock]]
        lists == {Pick(pool, keep, 1) :
                    keep \in {k \in SUBSET (1..Len(pool)) : Cardinality(k) <= MaxFiles}}
    IN  lists \cup {Reverse(l) : l \in lists}

InitPure(inputs) ==
    /\ Quiet
    /\ tree = <<>>
    /\ args = NoArgs
    /\ retTo = "none"
    /\ pc = "pure"
    /\ input \in inputs

Apply(value) ==
    /\ pc = "pure"
    /\ result' = value
    /\ pc' = "applied"
    /\ UNCHANGED <<tree, treeChanged, args, retTo, files, acc, diffs, cmDiffs,
                   commit, commitMessageSection, changesSection, reviewSection,
                   markdown, exc, disk, writes, outcome, returns, input>>

\* The two counts generateCommitDetails and generateBasicReview take of a diff.
ComputeStats ==
    Apply([added |-> addedLines(input), removed |-> removedLines(input)])

InitStats == InitPure(StatTexts)

NextStats == ComputeStats

SpecStats == InitStats /\ [][NextStats]_vars

Classify == Apply(determineCommitType(input))

InitClassify == InitPure(ClassifyInputs)

NextClassify == Classify

SpecClassify == InitClassify /\ [][NextClassify]_vars

Summarize == Apply(generateChangeSummary(input))

InitSummary == InitPure(SummaryInputs)

NextSummary == Summarize

SpecSummary == InitSummary /\ [][NextSummary]_vars

MaxReviewFiles == 2

ReviewPaths ==
    { <<"a",".","t","s">>, <<"M","a","k","e","f","i","l","e">>,
      <<"b","i","n","/","r","u","n">> }

\* The character lengths of the diff texts: a short one and the lengths
\* next to the two lengths generateBasicReview compares with.
ReviewLengths == {20, 299, 300, 301, 999, 1000, 1001}

\* A diff text of n characters: the two header lines, an added line and a
\* context line that fills the rest.
ReviewText(n) ==
    LET head == Header \o <<"+", "x", NL>>
    IN  head \o [i \in 1..(n - Len(head)) |-> " "]

\* Up to MaxReviewFiles changed files with distinct paths.
ReviewInputs ==
    UNION {{[i \in 1..n |-> [file |-> paths[i], diff |-> ReviewText(lens[i])]] :
              paths \in {f \in [1..n -> ReviewPaths] :
                           \A i, j \in 1..n : f[i] = f[j] => i = j},
              lens \in [1..n -> ReviewLengths]} : n \in 0..MaxReviewFiles}

Review == Apply(generateBasicReview(input))

InitReview == InitPure(ReviewInputs)

NextReview == Review

SpecReview == InitReview /\ [][NextReview]_vars

-----------------------------------------------------------------------------
(* Properties of the line counts, the classifier and the summary *)

\* C4: for every diff text, the empty one and one without header lines
\* included, the added and the removed line count are both at least 0.
C4_CountsNeverNegative ==
    pc = "applied" => result.added >= 0 /\ result.removed >= 0

\* The labels whose counter is strictly higher than every other label's.
StrictlyHighest(counts) ==
    {t \in Types : \A u \in Types \ {t} : counts[t] > counts[u]}

\* classify as the specification words it: the strictly highest label,
\* the fallback when there is none.
ClaimedClassify(ds) ==
    LET top == StrictlyHighest(typeCounts(ds))
    IN  IF top = {} THEN "chore" ELSE CHOOSE t \in top : TRUE

\* C5: classify returns the label whose counter is strictly higher than
\* every other label's, and chore when no label is (a tie for the highest
\* count, all counters zero, no diffs).
C5_StrictMaximumOrChore ==
    pc = "applied" => result = ClaimedClassify(input)

Permuted(ds, perm) == [i \in 1..Len(ds) |-> ds[perm[i]]]

\* C6: classify is order-independent: every permutation of the diffs is
\* given the label the diffs themselves are given.
C6_ClassifyOrderIndependent ==
    pc = "applied" =>
      \A perm \in Permutations(1..Len(input)) :
        determineCommitType(Permuted(input, perm)) = result

\* Diffs in an order that an order-dependent classifier would tell from
\* the reverse order: the first and the last diff hit different labels.
C6_Witness ==
    /\ pc = "applied"
    /\ Len(input) = MaxDiffs
    /\ typeCounts(<<input[1]>>)["fix"] = 2
    /\ typeCounts(<<input[Len(input)]>>)["test"] = 1
    /\ result = "fix"

\* What follows the last c in s; all of s when c is not in it.
AfterLast(s, c) ==
    LET at == {i \in 1..Len(s) : s[i] = c}
    IN  IF at = {} THEN s
        ELSE SubSeq(s, (CHOOSE i \in at : \A j \in at : j <= i) + 1, Len(s))

\* The extension of a path as the specification defines it: what follows
\* the final '.', and the empty string for a path without '.'.
ClaimedExtension(path) ==
    IF \E i \in 1..Len(path) : path[i] = "." THEN AfterLast(path, ".") ELSE <<>>

ClaimedSummary(ds) ==
    LET n    == Len(ds)
        exts == {ClaimedExtension(ds[i].file) : i \in 1..n}
    IN  IF n = 0 THEN <<"No changes detected">>
        ELSE IF n = 1 THEN <<"Update ">> \o ds[1].file
        ELSE IF n <= 5
        THEN <<"Update ">>
               \o Join([i \in 1..n |-> AfterLast(ds[i].file, "/")], <<",", " ">>)
        ELSE IF Cardinality(exts) = 1
        THEN <<"Update ", ToString(n), " ">> \o (CHOOSE e \in exts : TRUE)
               \o <<" files">>
        ELSE <<"Update ", ToString(n), " files across ",
               ToString(Cardinality(exts)), " file types">>

\* C7: the summary by the number n of diffs: "No changes detected" for 0,
\* "Update {path}" for 1, "Update " and the comma-joined basenames for 2 to
\* 5, and for more "Update {n} {ext} files" when all share one extension,
\* else "Update {n} files across {M} file types", M the distinct extensions.
C7_SummaryByCount ==
    pc = "applied" => result = ClaimedSummary(input)

\* Whether line is a file-header line of the marker c: it starts with ccc.
IsHeaderLine(line, c) == Len(line) >= 3 /\ SubSeq(line, 1, 3) = <<c, c, c>>

\* How many lines of diff start with c and are not a header line of c.
ContentLines(diff, c) ==
    LET lines == Split(diff, NL)
    IN  Cardinality({i \in 1..Len(lines) :
                       StartsWith(lines[i], c) /\ ~IsHeaderLine(lines[i], c)})

\* C11: for every diff text, with no, one or several header lines, the
\* added count is the number of its lines that start with '+' and are not a
\* '+++' header line, and the removed count the number of its lines that
\* start with '-' and are not a '---' header line.
C11_CountsExcludeHeaderLines ==
    pc = "applied" =>
      /\ result.added = ContentLines(input, "+")
      /\ result.removed = ContentLines(input, "-")

-----------------------------------------------------------------------------
(* Properties of generateBasicReview *)

\* The number of file types the review states: what follows " across ".
TypeCountStated(doc) ==
    doc[(CHOOSE p \in 1..Len(doc) : doc[p] = " across ") + 1]

\* C12: when file types are counted, every path without '.' has the
\* empty-string extension, so that all such paths together are one file
\* type: the review states as many file types as the paths have distinct
\* extensions, the empty string the extension of every path without '.'.
C12_DotlessPathsAreOneFileType ==
    (pc = "applied" /\ Len(input) > 0) =>
      /\ \A i \in 1..Len(input) :
           ~Includes(input[i].file, <<".">>) => FileType(input[i].file) = <<>>
      /\ TypeCountStated(result) =
           ToString(Cardinality({ClaimedExtension(input[i].file) :
                                   i \in 1..Len(input)}))

\* Where the review states a complexity rating.
ComplexityAt(doc) == {p \in 1..Len(doc) : doc[p] = "- Complexity: "}

\* The rating the review states for the i-th file.
ComplexityStated(doc, i) ==
    LET at == ComplexityAt(doc)
    IN  doc[(CHOOSE p \in at : Cardinality({q \in at : q <= p}) = i) + 1]

\* The rating by the limits the specification gives.
ClaimedComplexity(L) ==
    IF L < 300 THEN "low" ELSE IF L <= 999 THEN "medium" ELSE "high"

\* C13: the complexity rating of a file depends only on the character
\* length L of its diff text: low when L < 300, medium when 300 <= L <= 999,
\* high when L >= 1000; so L = 300 is medium and L = 1000 is high.
C13_ComplexityByLength ==
    pc = "applied" =>
      \A i \in 1..Len(input) :
        ComplexityStated(result, i) = ClaimedComplexity(Len(input[i].diff))

-----------------------------------------------------------------------------
(* Properties of generateCommitMessage *)

\* The type the message starts with: the caller's when one is given.
ClaimedType == IF Given(args.type) THEN args.type[1]
               ELSE determineCommitType(cmDiffs)

\* C8 as stated: the message is type, "(scope)" when a scope is supplied
\* and nothing otherwise, ": " and the summary of the diffs.
C8_SuffixWheneverScopeSupplied ==
    pc = "done" =>
      commit.commitMessage =
        <<ClaimedType>>
          \o (IF Given(args.scope) THEN <<"(">> \o args.scope[1] \o <<")">>
              ELSE <<>>)
          \o <<":", " ">> \o generateChangeSummary(cmDiffs)

\* C8, amended: the message is type, "(scope)" when a non-empty scope is
\* supplied and nothing otherwise (also for the empty string as scope),
\* ": " and the summary; the type is the caller's whenever one is given and
\* the classifier's otherwise; type feat with scope auth begins "feat(auth): ".
C8_CommitMessageFormat ==
    pc = "done" =>
      /\ commit.commitMessage =
           <<ClaimedType>>
             \o (IF Given(args.scope) /\ args.scope[1] # <<>>
                 THEN <<"(">> \o args.scope[1] \o <<")">> ELSE <<>>)
             \o <<":", " ">> \o generateChangeSummary(cmDiffs)
      /\ (args.type = Some("feat") /\ args.scope = Some(ScopeAuth)) =>
           SubSeq(commit.commitMessage, 1, 9)
             = <<"feat", "(", "a", "u", "t", "h", ")", ":", " ">>

\* A caller's type that the classifier would not have chosen, with a scope.
C8_Witness ==
    /\ pc = "done"
    /\ args.type = Some("feat")
    /\ args.scope = Some(ScopeAuth)
    /\ Len(cmDiffs) = 2
    /\ determineCommitType(cmDiffs) # "feat"
    /\ SubSeq(commit.commitMessage, 1, 2) = <<"feat", "(">>

-----------------------------------------------------------------------------
(* Properties of generateMarkdownFile *)

\* Where in doc a line with exactly the text line starts (line has no NL).
LinesAt(doc, line) ==
    {p \in 1..Len(doc) :
       /\ p = 1 \/ doc[p - 1] = NL
       /\ p + Len(line) - 1 <= Len(doc)
       /\ SubSeq(doc, p, p + Len(line) - 1) = line
       /\ p + Len(line) = Len(doc) + 1 \/ doc[p + Len(line)] = NL}

Flag(b) == IF b THEN 1 ELSE 0

\* C1: when the diffs obtained for the target are empty the call ends, in
\* its next step, with the warning outcome, whatever the title, the three
\* flags and the review comments are; nothing follows the end of a call.
C1_EmptyDiffsEndInWarning ==
    [][/\ pc # "done"
       /\ (pc = "loop" /\ retTo = "md" /\ Len(files) = 0 /\ Len(acc) = 0
             /\ pc' # pc)
            => (pc' = "done" /\ outcome'.status = "warning"
                  /\ returns' = 1 /\ Len(diffs') = 0)]_vars

\* Only an excluded file is changed, and every section was asked for.
C1_Witness ==
    /\ pc = "done"
    /\ outcome.status = "warning"
    /\ Len(tree) = 1
    /\ args.includeChanges /\ args.includeCommitMessage /\ args.includeReview
    /\ args.title # DefaultTitle

DocHeader ==
    <<"# ">> \o args.title
      \o <<NL, NL, "*Generated on: ", Timestamp, "*", NL, NL>>

\* C2: the document is the title heading, the timestamp line, then the
\* review, the commit-message and the file-changes section in that order;
\* a section is there exactly when its flag is true and a disabled section
\* contributes no text.
C2_SectionsInFixedOrder ==
    markdown # <<>> =>
      LET review  == LinesAt(markdown, <<"## Code Review">>)
          message == LinesAt(markdown, <<"## Commit Message">>)
          changes == LinesAt(markdown, <<"## File Changes">>)
      IN  /\ Len(diffs) > 0
          /\ LinesAt(markdown, <<"# ">> \o args.title) = {1}
          /\ LinesAt(markdown, <<"*Generated on: ", Timestamp, "*">>)
               = {Len(args.title) + 4}
          /\ Cardinality(review) = Flag(args.includeReview)
          /\ Cardinality(message) = Flag(args.includeCommitMessage)
          /\ Cardinality(changes) = Flag(args.includeChanges)
          /\ \A i \in review \cup message \cup changes : i > Len(DocHeader)
          /\ \A i \in review : \A j \in message \cup changes : i < j
          /\ \A i \in message : \A j \in changes : i < j
          /\ markdown = DocHeader \o reviewSection \o commitMessageSection
                          \o changesSection
          /\ ~args.includeReview => reviewSection = <<>>
          /\ ~args.includeCommitMessage => commitMessageSection = <<>>
          /\ ~args.includeChanges => changesSection = <<>>

C2_Witness ==
    /\ pc = "written"
    /\ Len(diffs) = 2
    /\ args.includeChanges /\ args.includeCommitMessage /\ args.includeReview
    /\ disk = markdown

\* How often path is the text of a "### " heading line of doc.
HeadingCount(doc, path) == Cardinality(LinesAt(doc, <<"### ">> \o path))

CanStep ==
    \/ pc \in {"mkdir", "summary", "write", "written", "catch"}
    \/ pc = "loop" /\ Len(files) > 0
    \/ pc = "loop" /\ Len(files) = 0 /\ retTo \in {"md", "cmInMd"}

\* C9: a call ends with exactly one outcome, of status success, warning or
\* error, and no exception escapes: a failed mkdir, listing, diff or write
\* becomes an error outcome that carries a reason; until it has returned
\* the call has returned nothing and can take a step.
C9_OneOutcomeNoEscape ==
    /\ pc # "rejected"
    /\ pc = "done" =>
         /\ returns = 1
         /\ outcome.status \in {"success", "warning", "error"}
         /\ outcome.status = "error" => Len(outcome.message) > 0
    /\ pc # "done" => returns = 0 /\ outcome = NoOutcome /\ CanStep
    /\ exc # "none" =>
         /\ pc \in {"catch", "done"}
         /\ pc = "done" =>
              /\ outcome.status = "error"
              /\ outcome.message[Len(outcome.message)] = exc

\* The diff of the second file could not be fetched.
C9_Witness ==
    /\ pc = "done"
    /\ exc = "git diff failed"
    /\ Len(acc) = 1
    /\ outcome.status = "error"
    /\ returns = 1

\* The (path, diff) pairs of a list of diffs.
PairsOf(ds) == {ds[i] : i \in 1..Len(ds)}

\* C14: in a call with includeCommitMessage and includeChanges both true
\* the commit-message section (summary and details) and the file-changes
\* section are derived from the same set of (path, diff) pairs, also when
\* the working tree changes between the steps of the call.
C14_SectionsFromSameDiffs ==
    (markdown # <<>> /\ args.includeCommitMessage /\ args.includeChanges) =>
      /\ PairsOf(cmDiffs) = PairsOf(diffs)
      /\ changesSection = changesSectionOf(diffs)
      /\ commitMessageSection =
           commitMessageSectionOf(commitMessageOf(diffs, None, None))

\* Whether the file at outputPath holds text of a report.
HoldsReportContent == disk # NoFile /\ Len(disk) > 0

\* C10: the report file is written at most once per call, and only after
\* the diffs were fetched and found non-empty and the sections were built;
\* a call that ends in a warning or an error has persisted no report
\* content; success is returned only after the write completed.
C10_NothingPersistedUnlessSuccess ==
    /\ writes <= 1
    /\ writes = 1 => Len(diffs) > 0 /\ markdown # <<>>
    /\ writes = 0 => disk = NoFile
    /\ (pc = "done" /\ outcome.status \in {"warning", "error"})
         => ~HoldsReportContent
    /\ (pc = "done" /\ outcome.status = "success")
         => writes = 1 /\ disk = markdown

====
